---------------------------- MODULE Spec2Model ----------------------------
(***************************************************************************)
(* Model of planning/tool_executor.py: the ToolExecutor registry, the      *)
(* dispatcher `execute`, the two identifier extractors, the metadata       *)
(* reflector `get_tool_metadata` and the two batch handlers.               *)
(*                                                                         *)
(* A Python str is a sequence of one-element pieces.  Text that the regex  *)
(* scans is a sequence of single characters; fixed text of a format string *)
(* is one opaque piece (it never reaches the regex).                       *)
(***************************************************************************)
EXTENDS Naturals, Integers, Sequences, FiniteSets, TLC

VARIABLES
    pc,                 \* position of the call being modelled
    tool_name,          \* execute's argument
    parameters,         \* execute's argument
    step_content,       \* execute's argument
    progress_callback,  \* TRUE when a callback is supplied, FALSE for None
    symbols,            \* stock_symbols / fund_symbols of the running handler
    i,                  \* loop index of enumerate(symbols, 1)
    all_analysis,       \* the handler's fragment list
    cb_calls,           \* arguments of every progress_callback invocation so far
    an_calls,           \* argument and outcome of every analysis call so far
    outcome,            \* "none", "returned" or "raised": how execute ended
    result,             \* the string execute (or the handler) returned
    exc,                \* the exception that left the handler
    handler,            \* the handler execute invoked, "" for none
    tool_func,          \* get_tool_metadata's argument
    metadata,           \* get_tool_metadata's return value
    analysis_result     \* the analysis result whose fragment is assembled

vars == <<pc, tool_name, parameters, step_content, progress_callback, symbols,
          i, all_analysis, cb_calls, an_calls, outcome, result, exc, handler,
          tool_func, metadata, analysis_result>>

(***************************************************************************)
(* Bounds of the model.                                                    *)
(***************************************************************************)
MaxStepTokens == 3
MaxItemTokens == 1
MaxListLen == 2

(***************************************************************************)
(* Characters and strings.                                                 *)
(***************************************************************************)
DigitChars == <<"0", "1", "2", "3", "4", "5", "6", "7", "8", "9">>

Digits == {DigitChars[k] : k \in 1..10}

Letters == {"a"}

\* \d of the re module on the characters of the model
IsDigit(c) == c \in Digits

\* \w of the re module: alphanumerics and the underscore
IsWord(c) == c \in Digits \cup Letters \cup {"_"}

\* code point order of the digit characters
DigitRank(c) == CHOOSE k \in 0..9 : DigitChars[k + 1] = c

\* str.__lt__ on strings of digits: lexicographic by code point
RECURSIVE StrLess(_, _)
StrLess(a, b) ==
    IF a = <<>> THEN b # <<>>
    ELSE IF b = <<>> THEN FALSE
    ELSE IF Head(a) = Head(b) THEN StrLess(Tail(a), Tail(b))
    ELSE DigitRank(Head(a)) < DigitRank(Head(b))

\* sep.join(parts)
RECURSIVE Join(_, _)
Join(parts, sep) ==
    IF parts = <<>> THEN <<>>
    ELSE IF Len(parts) = 1 THEN parts[1]
    ELSE parts[1] \o sep \o Join(Tail(parts), sep)

\* `piece in s` for a one-piece needle
Contains(s, piece) == \E k \in 1..Len(s) : s[k] = piece

\* `sub in s` for a string needle
ContainsStr(s, sub) ==
    \E k \in 0..(Len(s) - Len(sub)) : SubSeq(s, k + 1, k + Len(sub)) = sub

\* str(n) of a non-negative int
RECURSIVE IntToStr(_)
IntToStr(n) ==
    IF n < 10 THEN <<DigitChars[n + 1]>>
    ELSE IntToStr(n \div 10) \o <<DigitChars[(n % 10) + 1]>>

\* str(code) of a list element or scalar parameter value
PyStr(item) == IF item.isInt THEN IntToStr(item.n) ELSE item.s

(***************************************************************************)
(* re.findall(r"\b\d{6}\b", text)                                          *)
(***************************************************************************)
CodeLen == 6

\* \b at position p (between text[p-1] and text[p])
Boundary(text, p) ==
    LET before == p > 1 /\ p - 1 <= Len(text) /\ IsWord(text[p - 1])
        after  == p >= 1 /\ p <= Len(text) /\ IsWord(text[p])
    IN  before # after

MatchAt(text, p) ==
    /\ p + CodeLen - 1 <= Len(text)
    /\ Boundary(text, p)
    /\ \A k \in 0..(CodeLen - 1) : IsDigit(text[p + k])
    /\ Boundary(text, p + CodeLen)

RECURSIVE FindAllFrom(_, _)
FindAllFrom(text, p) ==
    IF p + CodeLen - 1 > Len(text) THEN <<>>
    ELSE IF MatchAt(text, p)
         THEN <<SubSeq(text, p, p + CodeLen - 1)>> \o FindAllFrom(text, p + CodeLen)
         ELSE FindAllFrom(text, p + 1)

FindAll(text) == FindAllFrom(text, 1)

\* set(list)
ToSet(seq) == {seq[k] : k \in 1..Len(seq)}

\* the same order reversed: sorted(S, reverse=True)
RECURSIVE SortedDescending(_)
SortedDescending(S) ==
    IF S = {} THEN <<>>
    ELSE LET m == CHOOSE x \in S : \A y \in S : y = x \/ StrLess(y, x)
         IN  <<m>> \o SortedDescending(S \ {m})

\* sorted(S) for a set of digit strings
RECURSIVE Sorted(_)
Sorted(S) ==
    IF S = {} THEN <<>>
    ELSE LET m == CHOOSE x \in S : \A y \in S : y = x \/ StrLess(x, y)
         IN  <<m>> \o Sorted(S \ {m})

(***************************************************************************)
(* _extract_stock_symbols / _extract_fund_symbols.  The two bodies differ  *)
(* only in the key they read.  The result is [raised, codes]: raised when   *)
(* ",".join meets a candidate that is not a str (a truthy non-str          *)
(* step_content).                                                          *)
(***************************************************************************)
ParamCandidates(key, params) ==
    IF params.isDict /\ params[key].present
    THEN [k \in 1..Len(params[key].items) |-> PyStr(params[key].items[k])]
    ELSE <<>>

StepTruthy(step) ==
    \/ step.kind = "int"
    \/ step.kind = "str" /\ step.s # <<>>

\* the fallback branch `if not candidates and step_content`
UsesStepContent(key, params, step) ==
    ParamCandidates(key, params) = <<>> /\ StepTruthy(step)

\* a fallback merged with the parameter candidates instead of replacing them
MergedCandidates(key, params, step) ==
    ParamCandidates(key, params)
        \o (IF step.kind = "str" /\ step.s # <<>> THEN <<step.s>> ELSE <<>>)

Candidates(key, params, step) ==
    IF UsesStepContent(key, params, step) /\ step.kind = "str"
    THEN <<step.s>>
    ELSE ParamCandidates(key, params)

ExtractSymbols(key, params, step) ==
    IF UsesStepContent(key, params, step) /\ step.kind # "str"
    THEN [raised |-> TRUE, codes |-> <<>>]
    ELSE [raised |-> FALSE,
          codes  |-> Sorted(ToSet(FindAll(Join(Candidates(key, params, step), <<",">>))))]

_extract_stock_symbols(params, step) == ExtractSymbols("stock_symbols", params, step)

_extract_fund_symbols(params, step) == ExtractSymbols("fund_symbols", params, step)


(***************************************************************************)
(* Values of the inputs.  A parameters value is a dict (isDict) or any     *)
(* other object; a dict entry is absent, a list of items, or one scalar    *)
(* item (kept as a one-element items); an item is a str or an int.         *)
(***************************************************************************)
StrItem(s) == [isInt |-> FALSE, n |-> 0, s |-> s]

IntItem(n) == [isInt |-> TRUE, n |-> n, s |-> <<>>]

Absent == [present |-> FALSE, isList |-> FALSE, items |-> <<>>]

ListValue(items) == [present |-> TRUE, isList |-> TRUE, items |-> items]

ScalarValue(item) == [present |-> TRUE, isList |-> FALSE, items |-> <<item>>]

NotDict == [isDict |-> FALSE, stock_symbols |-> Absent, fund_symbols |-> Absent]

DictOf(stock, fund) == [isDict |-> TRUE, stock_symbols |-> stock, fund_symbols |-> fund]

StrStep(s) == [kind |-> "str", s |-> s]

NoneStep == [kind |-> "none", s |-> <<>>]

IntStep == [kind |-> "int", s |-> <<>>]

Code111111 == <<"1", "1", "1", "1", "1", "1">>

Code121212 == <<"1", "2", "1", "2", "1", "2">>

Code222222 == <<"2", "2", "2", "2", "2", "2">>

\* all concatenations of at most n tokens
TokenTexts(tokens, n) ==
    {Join(f, <<>>) : f \in UNION {[1..k -> tokens] : k \in 0..n}}

SeqsUpTo(S, n) == UNION {[1..k -> S] : k \in 0..n}

StepTokens == {Code222222, Code111111, <<"1">>, <<"a">>, <<" ">>, <<"_">>}

ItemTokens == {Code222222, Code111111, <<"1">>}

StepTexts == TokenTexts(StepTokens, MaxStepTokens)

Items ==
    {StrItem(t) : t \in TokenTexts(ItemTokens, MaxItemTokens)}
        \cup {IntItem(111111), IntItem(1222222)}

ParamValues ==
    {ListValue(l) : l \in SeqsUpTo(Items, MaxListLen)}
        \cup {ScalarValue(it) : it \in Items}

\* step texts offered next to a parameter value: none, one code, two codes
StepSamples ==
    {StrStep(<<>>), StrStep(Code121212),
     StrStep(Code121212 \o <<" ">> \o Code111111)}

\* what the key of the other tool may hold
OtherValues == {Absent, ListValue(<<StrItem(Code121212)>>)}

StockTool == "stock_tool_display_name"

FundTool == "fund_tool_display_name"

KeyOf(tn) == IF tn = StockTool THEN "stock_symbols" ELSE "fund_symbols"

ParamsWith(tn, own, other) ==
    IF tn = StockTool THEN DictOf(own, other) ELSE DictOf(other, own)

\* the <<parameters, step_content>> pairs the extractor of tool tn is applied to
ExtractInputs(tn) ==
    {<<ParamsWith(tn, v, o), s>> : v \in ParamValues, o \in OtherValues, s \in StepSamples}
        \cup {<<p, s>> : p \in {NotDict, ParamsWith(tn, Absent, Absent),
                                ParamsWith(tn, Absent, ListValue(<<StrItem(Code121212)>>)),
                                ParamsWith(tn, ListValue(<<>>), Absent)},
                         s \in {StrStep(t) : t \in StepTexts} \cup {NoneStep, IntStep}}

NoExc == [kind |-> "none", msg |-> <<>>]

NoFunc == [name |-> "", short_description |-> "", doc_params |-> <<>>, sig |-> <<>>]

NoMetadata == [name |-> "", description |-> "", parameters |-> <<>>]

NoResult == [kind |-> "none"]

\* the variables a specification does not use
IdleCall ==
    /\ i = 0
    /\ all_analysis = <<>>
    /\ cb_calls = <<>>
    /\ an_calls = <<>>
    /\ outcome = "none"
    /\ result = <<>>
    /\ exc = NoExc
    /\ handler = ""

IdleMeta ==
    /\ tool_func = NoFunc
    /\ metadata = NoMetadata

(***************************************************************************)
(* SpecExtract: the two extractors as pure functions of their arguments.   *)
(***************************************************************************)
InitExtract ==
    /\ pc = "idle"
    /\ tool_name \in {StockTool, FundTool}
    /\ \E inp \in ExtractInputs(tool_name) :
           /\ parameters = inp[1]
           /\ step_content = inp[2]
    /\ progress_callback = FALSE
    /\ symbols = <<>>
    /\ analysis_result = NoResult
    /\ IdleCall
    /\ IdleMeta

ExtractReturn(r) ==
    /\ pc' = "extracted"
    /\ symbols' = r.codes
    /\ outcome' = IF r.raised THEN "raised" ELSE "returned"
    /\ exc' = IF r.raised THEN [kind |-> "Exception", msg |-> <<"TypeError">>] ELSE NoExc
    /\ UNCHANGED <<tool_name, parameters, step_content, progress_callback, i,
                   all_analysis, cb_calls, an_calls, result, handler, tool_func,
                   metadata, analysis_result>>

ExtractStock ==
    /\ pc = "idle"
    /\ tool_name = StockTool
    /\ ExtractReturn(_extract_stock_symbols(parameters, step_content))

ExtractFund ==
    /\ pc = "idle"
    /\ tool_name = FundTool
    /\ ExtractReturn(_extract_fund_symbols(parameters, step_content))

NextExtract == ExtractStock \/ ExtractFund

SpecExtract == InitExtract /\ [][NextExtract]_vars

(***************************************************************************)
(* The registry built by __init__ (a dict, kept in insertion order) and    *)
(* the strings the dispatcher and the handlers build.                      *)
(***************************************************************************)
tools ==
    <<[name |-> StockTool, handler |-> "execute_stock_analysis_tool"],
      [name |-> FundTool, handler |-> "execute_fund_analysis_tool"]>>

Registered(tn) == \E k \in 1..Len(tools) : tools[k].name = tn

\* a listing that stops after the first key
FirstToolOnly == <<tools[1].name>>

get_available_tools == [k \in 1..Len(tools) |-> tools[k].name]

\* the f-string of line 107
UnknownToolMessage(tn) ==
    <<"error: unknown tool '", tn, "', cannot execute. available tools: ">>
        \o Join([k \in 1..Len(get_available_tools) |-> <<get_available_tools[k]>>],
                <<", ">>)

\* the f-string of line 113
HandlerErrorMessage(tn, msg) ==
    <<"error while executing tool '", tn, "': ">> \o msg

NoStockSymbolsMessage ==
    <<"error: no valid A-share stock code found (6 digits needed), cannot analyse.">>

NoFundSymbolsMessage ==
    <<"error: no valid fund code found (6 digits needed), cannot analyse.">>

NoSymbolsMessage(tn) ==
    IF tn = StockTool THEN NoStockSymbolsMessage ELSE NoFundSymbolsMessage

\* the first argument of progress_callback
ProgressMessage(tn, code, k, total) ==
    <<IF tn = StockTool THEN "analysing stock " ELSE "analysing fund ">>
        \o code \o <<"(">> \o IntToStr(k) \o <<"/">> \o IntToStr(total) \o <<")">>

FragmentHeader(tn, code) ==
    <<IF tn = StockTool THEN "### stock analysis: " ELSE "### fund analysis: ">>
        \o code \o <<"\n">>

FailureFragment(tn, code, msg) ==
    FragmentHeader(tn, code) \o <<"analysis failed: ">> \o msg

Placeholder == <<"no analysis result">>

(***************************************************************************)
(* Analysis results.  run_stock_analysis returns a dict that may hold      *)
(* 'state' (a dict of report texts) and 'decision' (a dict that may hold   *)
(* 'reasoning'); run_fund_analysis returns a text.                         *)
(***************************************************************************)
report_types ==
    <<"market_report", "fundamentals_report", "sentiment_report", "news_report">>

ReportTypes == ToSet(report_types)

\* report_type.replace('_', ' ').title()
Title(t) ==
    CASE t = "market_report" -> "Market Report"
      [] t = "fundamentals_report" -> "Fundamentals Report"
      [] t = "sentiment_report" -> "Sentiment Report"
      [] t = "news_report" -> "News Report"

DecisionHeading == "#### core decision conclusion\n"

StockResult(hasState, state, hasDecision, hasReasoning, reasoning) ==
    [kind |-> "dict", has_state |-> hasState, state |-> state,
     has_decision |-> hasDecision, has_reasoning |-> hasReasoning,
     reasoning |-> reasoning, text |-> <<>>]

FundResult(text) ==
    [kind |-> "text", has_state |-> FALSE, state |-> <<>>,
     has_decision |-> FALSE, has_reasoning |-> FALSE,
     reasoning |-> <<>>, text |-> text]

\* lines 204-214: one entry per report type found in the state, in the
\* order of report_types
RECURSIVE RawReportsFrom(_, _)
RawReportsFrom(res, k) ==
    IF k > Len(report_types) THEN <<>>
    ELSE (IF res.has_state /\ report_types[k] \in DOMAIN res.state
          THEN <<(<<"#### ", Title(report_types[k]), "\n">> \o res.state[report_types[k]])>>
          ELSE <<>>)
         \o RawReportsFrom(res, k + 1)

raw_reports(res) == RawReportsFrom(res, 1)

\* lines 217-219
decision_reasoning(res) ==
    IF res.has_decision /\ res.has_reasoning
    THEN <<DecisionHeading>> \o res.reasoning
    ELSE <<>>

\* line 222
full_raw_report(res) == Join(raw_reports(res) \o <<decision_reasoning(res)>>, <<"\n\n">>)

\* a body without the placeholder fallback
StockBodyNoPlaceholder(res) == full_raw_report(res)

\* line 224: the body of a stock fragment
StockBody(res) ==
    IF full_raw_report(res) # <<>> THEN full_raw_report(res) ELSE Placeholder

\* line 272: the body of a fund fragment
FundBody(res) == IF res.text # <<>> THEN res.text ELSE Placeholder

SuccessFragment(tn, code, res) ==
    FragmentHeader(tn, code) \o (IF tn = StockTool THEN StockBody(res) ELSE FundBody(res))

(***************************************************************************)
(* Spec: one call of execute, cut at the calls it makes to the outside     *)
(* (the progress callback and the per-identifier analysis), whose outcomes *)
(* the caller and the analysis routine choose.                             *)
(***************************************************************************)
MaxSymbols == 3

\* the k-th code offered to a call: 600036, 600035, ... (descending)
PoolCode(k) == IntToStr(600037 - k)

PoolList(n) == ListValue([k \in 1..n |-> StrItem(PoolCode(k))])

CallInputs ==
    {<<DictOf(PoolList(n), PoolList(n)), StrStep(Code121212)>> : n \in 0..MaxSymbols}
        \cup {<<NotDict, StrStep(<<>>)>>,
              <<NotDict, StrStep(<<"a">> \o Code111111)>>,
              <<NotDict, StrStep(Code222222 \o <<",">> \o Code111111)>>,
              <<NotDict, IntStep>>,
              <<DictOf(ScalarValue(StrItem(<<"a">>)), ScalarValue(StrItem(<<"a">>))),
                StrStep(Code121212)>>}

CallNames == {StockTool, FundTool, "unknown_tool", ""}

ExceptionKinds == {"Exception", "BaseException"}

\* an execute without its try/except
ExecuteCatchesNothing(kind) == FALSE

\* `except Exception` of execute (line 112)
ExecuteCatches(kind) == kind = "Exception"

\* a loop without the try/except around the analysis call
LoopCatchesNothing(kind) == FALSE

\* `except Exception` around the analysis call (lines 199 and 267)
LoopCatches(kind) == kind = "Exception"

TextOf(t) == <<"text of " , t>>

AllSections == [t \in ReportTypes |-> TextOf(t)]

\* the results a call of Spec may receive from the analysis routine
StockResultSamples ==
    {StockResult(FALSE, <<>>, FALSE, FALSE, <<>>),
     StockResult(TRUE, <<>>, TRUE, FALSE, <<>>),
     StockResult(TRUE, [t \in {"fundamentals_report"} |-> TextOf(t)], FALSE, FALSE, <<>>),
     StockResult(TRUE, AllSections, TRUE, TRUE, <<"reasoning text">>)}

FundResultSamples == {FundResult(<<"fund report text">>), FundResult(<<>>)}

ResultSamples(tn) == IF tn = StockTool THEN StockResultSamples ELSE FundResultSamples

Init ==
    /\ pc = "idle"
    /\ tool_name = ""
    /\ parameters = NotDict
    /\ step_content = NoneStep
    /\ progress_callback = FALSE
    /\ symbols = <<>>
    /\ analysis_result = NoResult
    /\ IdleCall
    /\ IdleMeta

\* the handler's exception reaches execute's try/except
Propagate(tn, e) ==
    /\ exc' = e
    /\ pc' = "done"
    /\ IF ExecuteCatches(e.kind)
       THEN /\ outcome' = "returned"
            /\ result' = HandlerErrorMessage(tn, e.msg)
       ELSE /\ outcome' = "raised"
            /\ result' = <<>>

Return(s) ==
    /\ pc' = "done"
    /\ outcome' = "returned"
    /\ result' = s
    /\ exc' = exc

\* where the loop body starts for an identifier
LoopEntry(cb) == IF cb THEN "notify" ELSE "analyze"

\* execute with a name that is not a key of the registry (lines 106-107)
ExecuteUnknown ==
    /\ pc = "idle"
    /\ \E tn \in CallNames, inp \in CallInputs, cb \in BOOLEAN :
          /\ ~Registered(tn)
          /\ tool_name' = tn
          /\ parameters' = inp[1]
          /\ step_content' = inp[2]
          /\ progress_callback' = cb
          /\ Return(UnknownToolMessage(tn))
    /\ UNCHANGED <<symbols, i, all_analysis, cb_calls, an_calls, handler, tool_func,
                   metadata, analysis_result>>

\* self.tools[tool_name]
HandlerOf(tn) == tools[CHOOSE k \in 1..Len(tools) : tools[k].name = tn].handler

\* a handler without the early return on an empty list
NoSymbolsNever(codes) == FALSE

\* `if not stock_symbols` / `if not fund_symbols` (lines 172, 247)
NoSymbols(codes) == codes = <<>>

\* execute with a registered name, up to the first iteration of the
\* handler's loop (lines 109-113, 171-182, 246-257); cfg tells whether
\* st.session_state.llm_config can be read
ExecuteRegistered ==
    /\ pc = "idle"
    /\ \E tn \in CallNames, inp \in CallInputs, cb \in BOOLEAN, cfg \in BOOLEAN :
          /\ Registered(tn)
          /\ tool_name' = tn
          /\ parameters' = inp[1]
          /\ step_content' = inp[2]
          /\ progress_callback' = cb
          /\ handler' = HandlerOf(tn)
          /\ LET ext == IF HandlerOf(tn) = "execute_stock_analysis_tool"
                        THEN _extract_stock_symbols(inp[1], inp[2])
                        ELSE _extract_fund_symbols(inp[1], inp[2])
             IN  IF ext.raised
                 THEN /\ Propagate(tn, [kind |-> "Exception", msg |-> <<"TypeError">>])
                      /\ UNCHANGED <<symbols, i>>
                 ELSE IF NoSymbols(ext.codes)
                 THEN /\ Return(NoSymbolsMessage(tn))
                      /\ UNCHANGED <<symbols, i>>
                 ELSE IF ~cfg
                 THEN /\ symbols' = ext.codes
                      /\ Propagate(tn, [kind |-> "Exception", msg |-> <<"AttributeError">>])
                      /\ UNCHANGED i
                 ELSE IF ext.codes = <<>>
                 THEN /\ Return(Join(<<>>, <<"\n\n">>))
                      /\ UNCHANGED <<symbols, i>>
                 ELSE /\ symbols' = ext.codes
                      /\ i' = 1
                      /\ pc' = LoopEntry(cb)
                      /\ UNCHANGED <<outcome, result, exc>>
    /\ UNCHANGED <<all_analysis, cb_calls, an_calls, tool_func, metadata, analysis_result>>

\* a fraction counted from zero, as enumerate without start 1
ProgressFromZero(k, total) == [num |-> k - 1, den |-> total]

\* `progress = i / total` (lines 185, 260), kept as the exact quotient
Progress(k, total) == [num |-> k, den |-> total]

\* a callback whose exception is swallowed per item
NotifyOutcomeIsolated(cbout) ==
    /\ pc' = "analyze"
    /\ UNCHANGED <<outcome, result, exc>>

\* what follows the callback's return or exception: the call stands outside
\* the loop's try, so an exception leaves the handler
NotifyOutcome(cbout) ==
    IF cbout = "ok"
    THEN /\ pc' = "analyze"
         /\ UNCHANGED <<outcome, result, exc>>
    ELSE Propagate(tool_name, [kind |-> cbout, msg |-> <<"callback error">>])

\* the progress callback of the i-th identifier (lines 184-186, 259-261)
Notify ==
    /\ pc = "notify"
    /\ \E cbout \in {"ok"} \cup ExceptionKinds :
          /\ cb_calls' = Append(cb_calls,
                                [msg |-> ProgressMessage(tool_name, symbols[i], i, Len(symbols)),
                                 progress |-> Progress(i, Len(symbols)),
                                 out |-> cbout])
          /\ NotifyOutcome(cbout)
    /\ UNCHANGED <<tool_name, parameters, step_content, progress_callback, symbols, i,
                   all_analysis, an_calls, handler, tool_func, metadata, analysis_result>>

\* the end of an iteration: the fragment is appended and the loop goes on
\* to the next identifier or returns the joined report (lines 226, 274)
Advance(frag) ==
    /\ all_analysis' = Append(all_analysis, frag)
    /\ IF i < Len(symbols)
       THEN /\ i' = i + 1
            /\ pc' = LoopEntry(progress_callback)
            /\ UNCHANGED <<outcome, result, exc>>
       ELSE /\ i' = i
            /\ Return(Join(Append(all_analysis, frag), <<"\n\n">>))

\* the analysis call of the i-th identifier and the rest of the iteration
\* (lines 188-224, 263-272)
Analyze ==
    /\ pc = "analyze"
    /\ \/ \E res \in ResultSamples(tool_name) :
             /\ an_calls' = Append(an_calls, [code |-> symbols[i], raised |-> "none",
                                              res |-> res])
             /\ Advance(SuccessFragment(tool_name, symbols[i], res))
       \/ \E kind \in ExceptionKinds :
             /\ an_calls' = Append(an_calls, [code |-> symbols[i], raised |-> kind,
                                              res |-> FundResult(<<>>)])
             /\ IF LoopCatches(kind)
                THEN Advance(FailureFragment(tool_name, symbols[i], <<"analysis error">>))
                ELSE /\ Propagate(tool_name, [kind |-> kind, msg |-> <<"analysis error">>])
                     /\ UNCHANGED <<i, all_analysis>>
    /\ UNCHANGED <<tool_name, parameters, step_content, progress_callback, symbols,
                   cb_calls, handler, tool_func, metadata, analysis_result>>

Next == ExecuteUnknown \/ ExecuteRegistered \/ Notify \/ Analyze

Spec == Init /\ [][Next]_vars

(***************************************************************************)
(* Properties of the extractors, stated for SpecExtract.                   *)
(***************************************************************************)
Extracted == pc = "extracted" /\ outcome = "returned"

\* the str of every parameter item under the extractor's key
ParamTexts ==
    IF parameters.isDict /\ parameters[KeyOf(tool_name)].present
    THEN {PyStr(parameters[KeyOf(tool_name)].items[k]) :
             k \in 1..Len(parameters[KeyOf(tool_name)].items)}
    ELSE {}

\* every text the extractor can read
InputTexts == ParamTexts \cup {step_content.s}

\* c stands in text as a whole digit run: no digit before it, none after it
WholeRunIn(c, text) ==
    \E p \in 1..Len(text) :
        /\ p + Len(c) - 1 <= Len(text)
        /\ SubSeq(text, p, p + Len(c) - 1) = c
        /\ (p = 1 \/ ~IsDigit(text[p - 1]))
        /\ (p + Len(c) > Len(text) \/ ~IsDigit(text[p + Len(c)]))

\* text holds a digit run of more than CodeLen digits
HasLongRun(text) ==
    \E p \in 1..Len(text) :
        /\ p + CodeLen <= Len(text)
        /\ \A k \in 0..CodeLen : IsDigit(text[p + k])

\* C6: every sequence an extractor returns holds only strings of exactly 6
\* digits, holds none twice, is in ascending lexicographic order, and each
\* of its codes is a whole digit run of an input text (a run of more than 6
\* digits contributes none of its 6-digit substrings).
C6_ExtractWellFormed ==
    Extracted =>
        /\ \A k \in 1..Len(symbols) :
              /\ Len(symbols[k]) = 6
              /\ \A d \in 1..Len(symbols[k]) : symbols[k][d] \in Digits
              /\ \E t \in InputTexts : WholeRunIn(symbols[k], t)
        /\ \A j, k \in 1..Len(symbols) : j < k => symbols[j] # symbols[k]
        /\ \A j, k \in 1..Len(symbols) : j < k => StrLess(symbols[j], symbols[k])

\* a returned list next to an input that holds a run of 7 digits
C6_Witness ==
    /\ Extracted
    /\ Len(symbols) >= 1
    /\ \E t \in InputTexts : HasLongRun(t)

\* the 6-digit codes of a set of texts
CodesIn(texts) == UNION {ToSet(FindAll(t)) : t \in texts}

\* C7: when the parameters hold a non-empty value under the key, the result
\* is exactly the codes of that value and step_content contributes nothing;
\* step_content is read only when the parameters supply no candidate, and
\* then the result is exactly the codes of step_content.
C7_ParametersFirst ==
    Extracted =>
        /\ ParamTexts # {} => ToSet(symbols) = CodesIn(ParamTexts)
        /\ ParamTexts = {} => ToSet(symbols) = CodesIn({step_content.s})

\* a parameter list and a step text holding different codes
C7_Witness ==
    /\ Extracted
    /\ parameters[KeyOf(tool_name)].isList
    /\ symbols = <<Code111111, Code222222>>
    /\ step_content.s = Code121212

(***************************************************************************)
(* Properties of execute and the batch loop, stated for Spec.              *)
(***************************************************************************)
Done == pc = "done"

\* the fragment the loop owes to the k-th analysis call
OwedFragment(k) ==
    IF an_calls[k].raised = "none"
    THEN SuccessFragment(tool_name, an_calls[k].code, an_calls[k].res)
    ELSE FailureFragment(tool_name, an_calls[k].code, <<"analysis error">>)

\* the handler ran its loop to the end and returned the joined report
ReportReturned ==
    Done /\ Registered(tool_name) /\ symbols # <<>> /\ exc = NoExc

\* C1: execute with a name that is not a key of the registry returns (does
\* not raise) a string that holds every registered display name, and
\* invokes no handler, no progress callback and no analysis call.
C1_UnknownTool ==
    (Done /\ ~Registered(tool_name)) =>
        /\ outcome = "returned"
        /\ \A k \in 1..Len(tools) : Contains(result, tools[k].name)
        /\ handler = ""
        /\ cb_calls = <<>>
        /\ an_calls = <<>>

\* an unknown name, called with a callback and with parameters that hold
\* identifiers
C1_Witness ==
    /\ Done
    /\ tool_name = "unknown_tool"
    /\ progress_callback
    /\ parameters.isDict
    /\ Len(parameters.stock_symbols.items) >= 2

\* C2 as stated: whenever the handler of a registered tool raises, execute
\* returns a string that holds the exception's message.
C2_NoExceptionCrosses ==
    (Done /\ Registered(tool_name) /\ exc # NoExc) =>
        /\ outcome = "returned"
        /\ ContainsStr(result, exc.msg)

\* C2 as amended: an exception of class Exception that leaves the handler
\* (from identifier extraction, the configuration read, the callback) is
\* turned into a returned string that holds its message; an exception
\* outside the Exception hierarchy crosses execute.
C2_ExceptionConverted ==
    (Done /\ Registered(tool_name) /\ exc # NoExc) =>
        /\ exc.kind = "Exception" =>
              /\ outcome = "returned"
              /\ result = HandlerErrorMessage(tool_name, exc.msg)
              /\ ContainsStr(result, exc.msg)
        /\ exc.kind = "BaseException" => outcome = "raised"

\* the callback of the second identifier raises an Exception
C2_Witness ==
    /\ Done
    /\ Registered(tool_name)
    /\ exc = [kind |-> "Exception", msg |-> <<"callback error">>]
    /\ Len(cb_calls) = 2
    /\ outcome = "returned"

\* the last analysis call raised in the step just taken
AnalysisRaisedNow ==
    /\ pc = "analyze"
    /\ Len(an_calls') = Len(an_calls) + 1
    /\ an_calls'[Len(an_calls')].raised # "none"

\* the loop appended the failure fragment and went on
FailureIsolated ==
    /\ all_analysis' = Append(all_analysis,
                              FailureFragment(tool_name, symbols[i], <<"analysis error">>))
    /\ i < Len(symbols) => (i' = i + 1 /\ pc' \in {"notify", "analyze"})
    /\ i = Len(symbols) =>
          (outcome' = "returned" /\ result' = Join(all_analysis', <<"\n\n">>))

\* C3 as stated: whichever analysis calls raise, each is answered by a
\* failure fragment and the loop goes on to the later identifiers.
C3_EveryFailureIsolated == [][AnalysisRaisedNow => FailureIsolated]_vars

\* C3 as amended: an analysis call that raises an exception of class
\* Exception is answered by a failure fragment and the loop goes on; the
\* fragments are always one per analysis call answered, in order, and the
\* report the loop returns is one fragment per identifier, in the order of
\* the identifier list, joined by a blank line.
C3_FailureIsolated ==
    /\ [][(AnalysisRaisedNow /\ an_calls'[Len(an_calls')].raised = "Exception")
            => FailureIsolated]_vars
    /\ [](/\ Len(all_analysis) <= Len(an_calls)
          /\ \A k \in 1..Len(all_analysis) :
                /\ an_calls[k].code = symbols[k]
                /\ all_analysis[k] = OwedFragment(k)
          /\ ReportReturned =>
                /\ Len(an_calls) = Len(symbols)
                /\ Len(all_analysis) = Len(symbols)
                /\ outcome = "returned"
                /\ result = Join([k \in 1..Len(symbols) |-> OwedFragment(k)], <<"\n\n">>))

\* three identifiers, the first and the last failing, the report returned
C3_Witness ==
    /\ ReportReturned
    /\ Len(symbols) = 3
    /\ an_calls[1].raised = "Exception"
    /\ an_calls[2].raised = "none"
    /\ an_calls[3].raised = "Exception"

\* p is smaller than q, as exact quotients
FractionLess(p, q) == p.num * q.den < q.num * p.den

\* the callback log is what C4 asks of the first n identifiers
ProgressLogOf(n) ==
    /\ Len(cb_calls) = n
    /\ \A k \in 1..n :
          /\ cb_calls[k].progress.num = k
          /\ cb_calls[k].progress.den = Len(symbols)
          /\ ContainsStr(cb_calls[k].msg, symbols[k])
    /\ \A j, k \in 1..n : j < k => FractionLess(cb_calls[j].progress, cb_calls[k].progress)

\* C4 as stated: with a callback and at least one identifier, a call that
\* entered the loop ends with one invocation per identifier, the last with
\* fraction 1.
C4_OncePerIdentifier ==
    (Done /\ Registered(tool_name) /\ progress_callback /\ i >= 1) =>
        /\ ProgressLogOf(Len(symbols))
        /\ cb_calls[Len(symbols)].progress.num = cb_calls[Len(symbols)].progress.den

\* C4 as amended: the invocations made are always those of the first
\* identifiers, in order, the k-th with fraction k/total, each made after
\* the analysis of the previous identifier and before the analysis of its
\* own; when the loop runs to its end (no callback raises, no analysis
\* raises outside Exception) there is one per identifier and the last
\* carries 1; without a callback there is none.
C4_ProgressOrder ==
    /\ ~progress_callback => cb_calls = <<>>
    /\ (progress_callback /\ symbols # <<>>) =>
          /\ ProgressLogOf(Len(cb_calls))
          /\ Len(an_calls) <= Len(cb_calls)
          /\ Len(cb_calls) <= Len(an_calls) + 1
          /\ pc = "analyze" => Len(cb_calls) = Len(an_calls) + 1
          /\ pc = "notify" => Len(cb_calls) = Len(an_calls)
          /\ ReportReturned =>
                /\ ProgressLogOf(Len(symbols))
                /\ cb_calls[Len(symbols)].progress.num
                       = cb_calls[Len(symbols)].progress.den

\* three identifiers with a callback, the second analysis failing
C4_Witness ==
    /\ ReportReturned
    /\ progress_callback
    /\ Len(symbols) = 3
    /\ Len(cb_calls) = 3
    /\ an_calls[2].raised = "Exception"

\* what the extractor of the called tool yields on the call's arguments
ExtractionOfCall == ExtractSymbols(KeyOf(tool_name), parameters, step_content)

\* C5: when the extraction yields an empty list the handler returns the
\* fixed message at once: no analysis call, no callback invocation, no
\* fragment.
C5_NoSymbols ==
    (Done /\ Registered(tool_name) /\ ~ExtractionOfCall.raised
          /\ ExtractionOfCall.codes = <<>>) =>
        /\ outcome = "returned"
        /\ result = NoSymbolsMessage(tool_name)
        /\ an_calls = <<>>
        /\ cb_calls = <<>>
        /\ all_analysis = <<>>
        /\ exc = NoExc

\* a call with a callback whose parameter value holds no 6-digit code
C5_Witness ==
    /\ Done
    /\ tool_name = FundTool
    /\ progress_callback
    /\ parameters.isDict
    /\ parameters.fund_symbols.present
    /\ result = NoFundSymbolsMessage

\* the callback of the last invocation raised
CallbackRaised ==
    /\ cb_calls # <<>>
    /\ cb_calls[Len(cb_calls)].out # "ok"

\* what C10 says of the loop when the callback raised: no analysis for the
\* identifier it was called for, nor for a later one
BatchStopped ==
    /\ Done
    /\ Len(an_calls) = Len(cb_calls) - 1
    /\ Len(all_analysis) = Len(cb_calls) - 1

\* C10 as stated: if the callback raises on the i-th identifier the batch
\* stops there and execute returns the handler-failure string alone.
C10_CallbackFailureReturned ==
    CallbackRaised =>
        /\ BatchStopped
        /\ outcome = "returned"
        /\ result = HandlerErrorMessage(tool_name, <<"callback error">>)
        /\ \A k \in 1..Len(all_analysis) : ~ContainsStr(result, all_analysis[k])

\* C10 as amended: if the callback raises on the i-th identifier the batch
\* stops there (no analysis for the i-th or a later identifier) and the
\* fragments of identifiers 1..i-1 are lost; for an exception of class
\* Exception execute returns the handler-failure string alone, and an
\* exception outside the Exception hierarchy leaves execute.
C10_CallbackFailure ==
    CallbackRaised =>
        /\ BatchStopped
        /\ exc.msg = <<"callback error">>
        /\ exc.kind = "Exception" =>
              /\ outcome = "returned"
              /\ result = HandlerErrorMessage(tool_name, <<"callback error">>)
              /\ \A k \in 1..Len(all_analysis) : ~ContainsStr(result, all_analysis[k])
        /\ exc.kind = "BaseException" => (outcome = "raised" /\ result = <<>>)

\* the callback raises an Exception on the third identifier, after two
\* fragments were built
C10_Witness ==
    /\ CallbackRaised
    /\ Len(cb_calls) = 3
    /\ Len(all_analysis) = 2
    /\ exc.kind = "Exception"
    /\ outcome = "returned"

(***************************************************************************)
(* SpecFragment: the assembly of one success fragment (lines 203-224 and   *)
(* 271-272) as a function of the analysis result.                          *)
(***************************************************************************)
\* every 'state' dict over the four report types, each text set or empty
States == UNION {[S -> {<<"report text">>, <<>>}] : S \in SUBSET ReportTypes}

StockResults ==
    {StockResult(TRUE, st, d[1], d[2], d[3]) :
        st \in States,
        d \in {<<FALSE, FALSE, <<>>>>, <<TRUE, FALSE, <<>>>>,
               <<TRUE, TRUE, <<"reasoning text">>>>, <<TRUE, TRUE, <<>>>>}}
    \cup
    {StockResult(FALSE, <<>>, d[1], d[2], d[3]) :
        d \in {<<FALSE, FALSE, <<>>>>, <<TRUE, FALSE, <<>>>>,
               <<TRUE, TRUE, <<"reasoning text">>>>, <<TRUE, TRUE, <<>>>>}}

FundResults == {FundResult(<<"fund report text">>), FundResult(<<>>)}

InitFragment ==
    /\ pc = "idle"
    /\ tool_name \in {StockTool, FundTool}
    /\ analysis_result \in (IF tool_name = StockTool THEN StockResults ELSE FundResults)
    /\ symbols \in {<<PoolCode(1)>>, <<Code111111>>}
    /\ parameters = NotDict
    /\ step_content = NoneStep
    /\ progress_callback = FALSE
    /\ IdleCall
    /\ IdleMeta

AssembleReturn(frag) ==
    /\ pc' = "assembled"
    /\ all_analysis' = <<frag>>
    /\ UNCHANGED <<tool_name, parameters, step_content, progress_callback, symbols, i,
                   cb_calls, an_calls, outcome, result, exc, handler, tool_func,
                   metadata, analysis_result>>

AssembleStock ==
    /\ pc = "idle"
    /\ tool_name = StockTool
    /\ AssembleReturn(SuccessFragment(StockTool, symbols[1], analysis_result))

AssembleFund ==
    /\ pc = "idle"
    /\ tool_name = FundTool
    /\ AssembleReturn(SuccessFragment(FundTool, symbols[1], analysis_result))

NextFragment == AssembleStock \/ AssembleFund

SpecFragment == InitFragment /\ [][NextFragment]_vars

(***************************************************************************)
(* The property of the fragment body, stated for SpecFragment.             *)
(***************************************************************************)
\* the body of the assembled fragment: what follows the header line
FragmentBody ==
    SubSeq(all_analysis[1], Len(FragmentHeader(tool_name, symbols[1])) + 1,
           Len(all_analysis[1]))

SectionPresent(t) == analysis_result.has_state /\ t \in DOMAIN analysis_result.state

ReasoningPresent == analysis_result.has_decision /\ analysis_result.has_reasoning

IsHeading(piece) == piece \in {Title(t) : t \in ReportTypes} \cup {DecisionHeading}

\* the headings a stock body owes, in the fixed order
RECURSIVE OwedHeadingsFrom(_)
OwedHeadingsFrom(k) ==
    IF k > Len(report_types) THEN (IF ReasoningPresent THEN <<DecisionHeading>> ELSE <<>>)
    ELSE (IF SectionPresent(report_types[k]) THEN <<Title(report_types[k])>> ELSE <<>>)
         \o OwedHeadingsFrom(k + 1)

MaxSigParams == 2
MaxDocParams == 2

NoDescription == "no description"

Unspecified == "unspecified"

Required == "required"

\* lines 49-53: the description of the first docstring entry of that name
RECURSIVE ParamDescFrom(_, _, _)
ParamDescFrom(doc_params, param_name, k) ==
    IF k > Len(doc_params) THEN ""
    ELSE IF doc_params[k].arg_name = param_name
         THEN (IF doc_params[k].description # "" THEN doc_params[k].description
               ELSE NoDescription)
         ELSE ParamDescFrom(doc_params, param_name, k + 1)

param_desc(doc_params, param_name) == ParamDescFrom(doc_params, param_name, 1)

\* lines 43-60: one entry per parameter of the signature, in its order
ParameterInfo(func, k) ==
    [name        |-> func.sig[k].name,
     type        |-> IF func.sig[k].annotation # "" THEN func.sig[k].annotation
                     ELSE Unspecified,
     default     |-> IF func.sig[k].default # "" THEN func.sig[k].default ELSE Required,
     description |-> param_desc(func.doc_params, func.sig[k].name)]

get_tool_metadata(func) ==
    [name        |-> func.name,
     description |-> IF func.short_description # "" THEN func.short_description
                     ELSE NoDescription,
     parameters  |-> [k \in 1..Len(func.sig) |-> ParameterInfo(func, k)]]

\* the docstring and signature of the two registered handlers
HandlerDocParams(key_text) ==
    <<[arg_name |-> "parameters", description |-> key_text],
      [arg_name |-> "step_content", description |-> "step text, fallback source of codes"],
      [arg_name |-> "progress_callback", description |-> "progress callback (str, float)"]>>

HandlerSig ==
    <<[name |-> "parameters", annotation |-> "Dict", default |-> ""],
      [name |-> "step_content", annotation |-> "str", default |-> ""],
      [name |-> "progress_callback", annotation |-> "Optional", default |-> "None"]>>

RegisteredFuncs ==
    {[name |-> "execute_stock_analysis_tool",
      short_description |-> "stock analysis tool, batch analysis of stocks",
      doc_params |-> HandlerDocParams("tool parameters, key stock_symbols"),
      sig |-> HandlerSig],
     [name |-> "execute_fund_analysis_tool",
      short_description |-> "fund analysis tool, batch analysis of funds",
      doc_params |-> HandlerDocParams("tool parameters, key fund_symbols"),
      sig |-> HandlerSig]}

SigParams ==
    [name : {"parameters", "step_content", "x"}, annotation : {"", "str"},
     default : {"", "None"}]

DocParams == [arg_name : {"parameters", "x"}, description : {"", "description of it"}]

\* a signature names no parameter twice
DistinctNames(sig) == \A j, k \in 1..Len(sig) : j # k => sig[j].name # sig[k].name

OtherFuncs ==
    {[name |-> "tool", short_description |-> sd, doc_params |-> dp, sig |-> sg] :
        sd \in {"", "summary line"},
        dp \in SeqsUpTo(DocParams, MaxDocParams),
        sg \in {q \in SeqsUpTo(SigParams, MaxSigParams) : DistinctNames(q)}}

InitMeta ==
    /\ pc = "idle"
    /\ tool_func \in RegisteredFuncs \cup OtherFuncs
    /\ metadata = NoMetadata
    /\ tool_name = ""
    /\ parameters = NotDict
    /\ step_content = NoneStep
    /\ progress_callback = FALSE
    /\ symbols = <<>>
    /\ analysis_result = NoResult
    /\ IdleCall

GetToolMetadata ==
    /\ pc = "idle"
    /\ pc' = "described"
    /\ metadata' = get_tool_metadata(tool_func)
    /\ UNCHANGED <<tool_name, parameters, step_content, progress_callback, symbols, i,
                   all_analysis, cb_calls, an_calls, outcome, result, exc, handler,
                   tool_func, analysis_result>>

NextMeta == GetToolMetadata

SpecMeta == InitMeta /\ [][NextMeta]_vars

(***************************************************************************)
(* The property of get_tool_metadata, stated for SpecMeta.                 *)
(***************************************************************************)
\* the docstring entries named like the k-th parameter
EntriesFor(k) ==
    {e \in 1..Len(tool_func.doc_params) :
        tool_func.doc_params[e].arg_name = tool_func.sig[k].name}

FirstEntryFor(k) == CHOOSE e \in EntriesFor(k) : \A f \in EntriesFor(k) : e <= f

\* C8: the parameters are reported in declaration order; the description of
\* each is the text of the docstring entry of its name (the placeholder
\* when that entry has no text), and the placeholder when no entry has its
\* name.
C8_ParameterDescriptions ==
    pc = "described" =>
        /\ Len(metadata.parameters) = Len(tool_func.sig)
        /\ \A k \in 1..Len(tool_func.sig) :
              /\ metadata.parameters[k].name = tool_func.sig[k].name
              /\ metadata.parameters[k].description =
                    IF EntriesFor(k) = {} THEN NoDescription
                    ELSE IF tool_func.doc_params[FirstEntryFor(k)].description # ""
                         THEN tool_func.doc_params[FirstEntryFor(k)].description
                         ELSE NoDescription

=============================================================================
